---- MODULE Spec2Model ----
(***************************************************************************)
(* Chunked parallel summarization pipeline of src/review.py:               *)
(* summarize_text_parallel launches one summarize_chunk_with_retry task    *)
(* per chunk, gathers the per-chunk outcomes, and hands their labelled     *)
(* concatenation to generate_final_summary.                                *)
(*                                                                         *)
(* Strings are sequences of tokens (a token is a TLA+ string).  Every      *)
(* literal of the source that begins with "Error" is cut after that word,  *)
(* so that str.startswith("Error") is a test on the first token.           *)
(***************************************************************************)
EXTENDS Integers, Sequences, FiniteSets, TLC

(***************************************************************************)
(* Program constants (src/review.py:26-29, 300).                           *)
(***************************************************************************)
MAX_RETRIES == 2
RETRY_BACKOFF_BASE == 5
FINAL_BACKOFF_BASE == 10

(***************************************************************************)
(* Bounds of the model.                                                    *)
(***************************************************************************)
\* largest number of chunks the segmentation step yields
MaxChunks == 2
\* largest max_retries argument tried on a direct call of the retry loop
MaxRetriesArg == 3

VARIABLES
    tasks,           \* task id -> frame of one summarize_chunk_with_retry coroutine
    pending,         \* task id -> backend answers already fixed for that task's next requests
    observed,        \* chunk id whose backend answers are shared by two runs (0: none)
    stage,           \* position of summarize_text_parallel / generate_final_summary
    summaries,       \* the list `summaries` after line 209
    combined,        \* combined_chunk_summaries passed to generate_final_summary
    retry_count,     \* generate_final_summary's retry_count
    final_wait,      \* wait_time of generate_final_summary's last backoff
    ret,             \* value returned (or description of the exception raised)
    final_requests,  \* final-synthesis requests the backend has received
    final_first,     \* kind of the backend's answer to the first final request
    final_last,      \* kind of the backend's answer to the latest final request
    final_response,  \* generate_final_summary's final_response: the parsed answer (line 290)
    reqs,            \* request id -> one client request and the frame of its handler
    pdf_file         \* content of the file "arxiv_paper.pdf" in the server's directory

vars == <<tasks, pending, observed, stage, summaries, combined, retry_count,
          final_wait, ret, final_requests, final_first, final_last, final_response,
          reqs, pdf_file>>

finalVars == <<stage, summaries, combined, retry_count, final_wait, ret,
               final_requests, final_first, final_last, final_response>>

\* the state of the summarization pipeline, left alone by the HTTP application
pipelineVars == <<tasks, pending, observed, finalVars>>

\* the state of the HTTP application, left alone by the pipeline
appVars == <<reqs, pdf_file>>

\* client requests in flight at the same time
MaxRequests == 2

ReqIds == 1..MaxRequests

\* a file's content: which paper it holds and in what form
\* (text: pages with text; scan: one page without text; blank: two pages
\* without text; corrupt: no PDF inside)
File(paper, form) == [paper |-> paper, form |-> form]

NoFile == File("none", "absent")

\* an HTTP answer: status code, the keys of its JSON body, the text under its main key
Answer(status, keys, value) == [status |-> status, keys |-> keys, value |-> value]

NoAnswer == Answer(0, {}, <<>>)

NewRequest ==
    [ pc       |-> "idle",     \* idle, stopped, sent, downloading, closing, summarizing, done
      button   |-> "",         \* the frontend button pressed: url, file, universal
      field    |-> <<>>,       \* content of the input field of the pressed button
      payload  |-> {},         \* JSON body of the POST request: set of <<key, value>>
      warning  |-> <<>>,       \* text of status_placeholder.warning
      posted   |-> 0,          \* POST requests sent by the client
      method   |-> "",
      endpoint |-> "",
      url      |-> <<>>,       \* request.url (line 46)
      got      |-> NoFile,     \* what this request's own download received
      text     |-> <<>>,       \* the handler's `text` (line 56)
      pipeline |-> FALSE,      \* summarize_text_parallel was entered (line 59)
      answer   |-> NoAnswer ]

\* no request yet, no file written yet
AppIdle ==
    /\ reqs = [r \in ReqIds |-> NewRequest]
    /\ pdf_file = NoFile

(***************************************************************************)
(* Text helpers.                                                           *)
(***************************************************************************)
\* str.startswith("Error")
StartsWithError(s) == Len(s) > 0 /\ s[1] = "Error"

\* 2 ** n
RECURSIVE Pow2(_)
Pow2(n) == IF n <= 0 THEN 1 ELSE 2 * Pow2(n - 1)

\* sep.join(parts)
RECURSIVE Join(_, _)
Join(sep, parts) ==
    IF parts = <<>> THEN <<>>
    ELSE IF Len(parts) = 1 THEN parts[1]
    ELSE parts[1] \o sep \o Join(sep, Tail(parts))

(***************************************************************************)
(* What the inference backend (or the runtime) does with one request.      *)
(*   ok        2xx, body {"message": {"content": <content>}}               *)
(*   timeout   httpx.TimeoutException                                      *)
(*   connect   httpx.ConnectError                                          *)
(*   status    non-2xx: raise_for_status() raises httpx.HTTPStatusError    *)
(*   transport another httpx.HTTPError (e.g. ReadError), no .response      *)
(*   badjson   2xx, body is not JSON: response.json() raises ValueError    *)
(*   emptyjson 2xx, body is the JSON value {}                              *)
(*   noshape   2xx, body is a JSON object without message.content          *)
(*   fault     an unexpected exception escapes summarize_chunk_wrapper     *)
(*             (raised outside its try, or inside its last handler)        *)
(*   crash     an unexpected exception escapes summarize_chunk_with_retry  *)
(*             (raised outside the try of its loop)                        *)
(***************************************************************************)
Resp(k, c, code) == [kind |-> k, content |-> c, code |-> code]

NoResp == Resp("none", <<>>, 0)

\* generated texts a 2xx answer to a chunk request may carry
ChunkContents == { <<"technical details">>, <<"Error", " rates fell by 3%">> }

\* generated texts a 2xx answer to the final request may carry
FinalContents == { <<"final document">>, <<>> }

TransportKinds == {"timeout", "connect", "transport"}

ChunkEvents ==
    { Resp("ok", c, 200) : c \in ChunkContents }
    \cup { Resp(k, <<>>, 0) : k \in TransportKinds }
    \cup { Resp("status", <<>>, 500) }
    \cup { Resp(k, <<>>, 200) : k \in {"badjson", "emptyjson", "noshape"} }
    \cup { Resp(k, <<>>, 0) : k \in {"fault", "crash"} }

FinalEvents ==
    { Resp("ok", c, 200) : c \in FinalContents }
    \cup { Resp(k, <<>>, 0) : k \in TransportKinds }
    \cup { Resp("status", <<>>, 500) }
    \cup { Resp(k, <<>>, 200) : k \in {"badjson", "emptyjson", "noshape"} }

\* str(e) of the exception an event makes the callee see
ExcText(resp) ==
    CASE resp.kind = "transport" -> <<"'ReadError' object has no attribute 'response'">>
      [] resp.kind = "badjson"   -> <<"Expecting value: line 1 column 1 (char 0)">>
      [] resp.kind \in {"emptyjson", "noshape"} -> <<"'message'">>
      [] OTHER -> <<"fault">>

(***************************************************************************)
(* summarize_chunk_wrapper: the value returned, or the exception raised,   *)
(* for one backend answer.                                                 *)
(***************************************************************************)
Returned(text) == [raised |-> FALSE, text |-> text]
Raised(text) == [raised |-> TRUE, text |-> text]

\* summarize_chunk_wrapper without its outer handler (lines 379-383): what the
\* inner handlers do not turn into a value leaves the wrapper as an exception
summarize_chunk_wrapper_NoOuterHandler(resp, chunk_id) ==
    CASE resp.kind = "ok" -> Returned(resp.content)
      [] resp.kind = "timeout" ->
            Returned(<<"Error", " in chunk ", ToString(chunk_id),
                       ": Request timed out. Consider increasing the timeout or reducing chunk size.">>)
      [] resp.kind = "connect" ->
            Returned(<<"Error", " in chunk ", ToString(chunk_id),
                       ": Could not connect to Ollama API. Check if Ollama is running correctly.">>)
      [] resp.kind = "status" ->
            Returned(<<"Error", " in chunk ", ToString(chunk_id),
                       ": HTTP error from Ollama API. Status code: ", ToString(resp.code)>>)
      [] OTHER -> Raised(ExcText(resp))

summarize_chunk_wrapper(resp, chunk_id) ==
    CASE resp.kind = "ok" -> Returned(resp.content)
      [] resp.kind = "timeout" ->
            Returned(<<"Error", " in chunk ", ToString(chunk_id),
                       ": Request timed out. Consider increasing the timeout or reducing chunk size.">>)
      [] resp.kind = "connect" ->
            Returned(<<"Error", " in chunk ", ToString(chunk_id),
                       ": Could not connect to Ollama API. Check if Ollama is running correctly.">>)
      [] resp.kind = "status" ->
            Returned(<<"Error", " in chunk ", ToString(chunk_id),
                       ": HTTP error from Ollama API. Status code: ", ToString(resp.code)>>)
      \* he.response raises AttributeError in the handler; the outer handler reports it
      [] resp.kind \in {"transport", "badjson", "emptyjson", "noshape"} ->
            Returned(<<"Error", " processing chunk ", ToString(chunk_id), ": ">> \o ExcText(resp))
      [] OTHER -> Raised(ExcText(resp))

(***************************************************************************)
(* summarize_chunk_with_retry.                                             *)
(***************************************************************************)
NewTask(chunk_id, total_chunks, max_retries) ==
    [ chunk_id     |-> chunk_id,
      total_chunks |-> total_chunks,
      max_retries  |-> max_retries,
      retries      |-> 0,
      pc           |-> "ready",     \* ready, awaiting, sleeping, done
      raised       |-> FALSE,       \* the coroutine ended with an exception
      result       |-> <<>>,        \* value returned, or str() of the exception
      wait_time    |-> 0,
      calls        |-> 0,           \* invocations of summarize_chunk_wrapper
      requests     |-> 0,           \* requests sent to the backend (line 348)
      fails        |-> 0,           \* invocations that raised or returned an error
      last         |-> NoResp ]     \* the backend's answer to the latest invocation

\* the loop head (line 120), entered by a task that has not run yet or has slept
LoopHead(task) ==
    IF task.retries <= task.max_retries
    THEN [task EXCEPT !.pc = "awaiting", !.calls = @ + 1, !.requests = @ + 1]
    ELSE [task EXCEPT !.pc = "done",
                      !.result = <<"Error", ": Unexpected end of retry loop for chunk ",
                                   ToString(task.chunk_id)>>]

\* ChunkBackoff with the exponent not lowered by one: the first wait is already doubled
ChunkBackoff_Doubled(retries) == RETRY_BACKOFF_BASE * Pow2(retries)

\* the backoff wait after the retries-th failure (lines 135, 157)
ChunkBackoff(retries) == RETRY_BACKOFF_BASE * Pow2(retries - 1)

\* is the wrapper's outcome a failure for the retry loop (line 129, line 150)
IsFailure(out) == out.raised \/ StartsWithError(out.text)

\* AfterAttempt with the last permitted retry given up (n < max_retries)
AfterAttempt_GivesUpEarly(task, out) ==
    IF ~out.raised /\ ~StartsWithError(out.text)
    THEN [task EXCEPT !.pc = "done", !.result = out.text]
    ELSE LET n == task.retries + 1 IN
         IF n < task.max_retries
         THEN [task EXCEPT !.retries = n, !.pc = "sleeping",
                           !.wait_time = ChunkBackoff(n)]
         ELSE [task EXCEPT !.retries = n, !.pc = "done", !.result = out.text]

\* AfterAttempt that leaves the loop on exhaustion and returns line 166's text
AfterAttempt_FallsThrough(task, out) ==
    IF ~out.raised /\ ~StartsWithError(out.text)
    THEN [task EXCEPT !.pc = "done", !.result = out.text]
    ELSE LET n == task.retries + 1 IN
         IF n <= task.max_retries
         THEN [task EXCEPT !.retries = n, !.pc = "sleeping",
                           !.wait_time = ChunkBackoff(n)]
         ELSE [task EXCEPT !.retries = n, !.pc = "done",
                           !.result = <<"Error", ": Unexpected end of retry loop for chunk ",
                                        ToString(task.chunk_id)>>]

\* the loop body from the wrapper's outcome on (lines 129-164)
AfterAttempt(task, out) ==
    IF ~out.raised /\ ~StartsWithError(out.text)
    THEN [task EXCEPT !.pc = "done", !.result = out.text]
    ELSE LET n == task.retries + 1 IN
         IF n <= task.max_retries
         THEN [task EXCEPT !.retries = n, !.pc = "sleeping",
                           !.wait_time = ChunkBackoff(n)]
         ELSE [task EXCEPT !.retries = n, !.pc = "done",
                           !.result =
                               IF out.raised
                               THEN <<"Error", " processing chunk ", ToString(task.chunk_id),
                                      " after ", ToString(task.max_retries + 1),
                                      " attempts: ">> \o out.text
                               ELSE out.text]

\* Attempt with `retries` kept in one counter shared by all the tasks
Attempt_SharedRetries(task, resp) ==
    LET out    == summarize_chunk_wrapper(resp, task.chunk_id)
        most   == CHOOSE n \in { tasks[u].retries : u \in DOMAIN tasks } :
                      \A u \in DOMAIN tasks : tasks[u].retries <= n
        seen   == [task EXCEPT !.last = resp, !.retries = most,
                               !.fails = IF IsFailure(out) THEN @ + 1 ELSE @]
    IN  IF resp.kind = "crash"
        THEN [seen EXCEPT !.pc = "done", !.raised = TRUE, !.result = out.text]
        ELSE AfterAttempt(seen, out)

\* one attempt completes with the backend's answer resp
Attempt(task, resp) ==
    LET out  == summarize_chunk_wrapper(resp, task.chunk_id)
        seen == [task EXCEPT !.last = resp,
                             !.fails = IF IsFailure(out) THEN @ + 1 ELSE @]
    IN  IF resp.kind = "crash"
        THEN [seen EXCEPT !.pc = "done", !.raised = TRUE, !.result = out.text]
        ELSE AfterAttempt(seen, out)

(***************************************************************************)
(* Two runs that get the same backend answers for chunk `observed`: the    *)
(* first of the two tasks to receive an answer fixes it for the other.     *)
(***************************************************************************)
Partners(t) ==
    { u \in DOMAIN tasks \ {t} :
        tasks[t].chunk_id = observed /\ tasks[u].chunk_id = observed }

Dictated(t) == pending[t] # <<>>

\* The answers drawn for a chunk request.  The two-run product draws from one
\* representative of each way an attempt can end: a success, a returned error,
\* an exception raised by the wrapper, an exception that escapes the loop.
EventsOffered ==
    IF observed = 0
    THEN ChunkEvents
    ELSE { e \in ChunkEvents :
             /\ e.kind \in {"ok", "timeout", "fault", "crash"}
             /\ ~StartsWithError(e.content) }

(***************************************************************************)
(* Steps of one chunk task.                                                *)
(***************************************************************************)
\* Blockers with the backoff done by a blocking sleep (time.sleep): the thread of
\* the event loop is held while any task sleeps
Blockers_BlockingSleep(t) == { u \in DOMAIN tasks \ {t} : tasks[u].pc = "sleeping" }

\* The tasks whose suspension keeps the event loop from running task t.  The
\* backoff is `await asyncio.sleep(wait_time)` (lines 139, 161) and the request is
\* `await client.post(...)` (line 348): both hand control back to the loop.
Blockers(t) == {}

Start(t) ==
    /\ t \in DOMAIN tasks
    /\ Blockers(t) = {}
    /\ tasks[t].pc = "ready"
    /\ tasks' = [tasks EXCEPT ![t] = LoopHead(@)]
    /\ UNCHANGED <<pending, observed, finalVars, appVars>>

Respond(t) ==
    /\ t \in DOMAIN tasks
    /\ Blockers(t) = {}
    /\ tasks[t].pc = "awaiting"
    /\ \E resp \in EventsOffered :
          /\ Dictated(t) => resp = Head(pending[t])
          /\ tasks' = [tasks EXCEPT ![t] = Attempt(@, resp)]
          /\ pending' =
                IF Dictated(t)
                THEN [pending EXCEPT ![t] = Tail(@)]
                ELSE [u \in DOMAIN pending |->
                        IF u \in Partners(t) THEN Append(pending[u], resp) ELSE pending[u]]
    /\ UNCHANGED <<observed, finalVars, appVars>>

Wake(t) ==
    /\ t \in DOMAIN tasks
    /\ Blockers(t) = {}
    /\ tasks[t].pc = "sleeping"
    /\ tasks' = [tasks EXCEPT ![t] = LoopHead(@)]
    /\ UNCHANGED <<pending, observed, finalVars, appVars>>

\* task ids: one run of up to MaxChunks chunks, or two runs side by side
TaskIds == 1..(2 * MaxChunks)

NextChunks ==
    \/ \E t \in TaskIds : Start(t)
    \/ \E t \in TaskIds : Respond(t)
    \/ \E t \in TaskIds : Wake(t)

(***************************************************************************)
(* A direct call summarize_chunk_with_retry(chunk, chunk_id, total,        *)
(* max_retries).                                                           *)
(***************************************************************************)
FinalIdle ==
    /\ stage = "chunks"
    /\ summaries = <<>>
    /\ combined = <<>>
    /\ retry_count = 0
    /\ final_wait = 0
    /\ ret = <<>>
    /\ final_requests = 0
    /\ final_first = "none"
    /\ final_last = "none"
    /\ final_response = NoResp

InitRetry ==
    /\ \E id \in 1..MaxChunks, m \in (-1)..MaxRetriesArg :
          tasks = <<NewTask(id, MaxChunks, m)>>
    /\ pending = <<<<>>>>
    /\ observed = 0
    /\ FinalIdle
    /\ AppIdle

SpecRetry == InitRetry /\ [][NextChunks]_vars

(***************************************************************************)
(* summarize_text_parallel, from the creation of the tasks on.             *)
(***************************************************************************)
NoMeaningfulSummary ==
    <<"No meaningful summary could be generated. All chunks failed processing.">>
FinalFailedAfterRetries ==
    <<"Failed to generate final summary after multiple attempts. Please check the logs for details.">>
FinalFailedUnexpected ==
    <<"Failed to generate final summary due to an unexpected error. Please check the logs for details.">>
FinalFailedEmpty ==
    <<"Failed to generate final summary. Please check the logs for details.">>

\* tasks = [summarize_chunk_with_retry(chunk, i + 1, len(chunks)) for i, chunk in enumerate(chunks)]
\* (position p of the model is i + 1)
CreateTasks(n) == [p \in 1..n |-> NewTask(p, n, MAX_RETRIES)]

\* await asyncio.gather(*tasks, return_exceptions=True): one entry per awaitable, in
\* the order of the awaitables; an exception is an entry like a returned value
gather(ts) == [p \in 1..Len(ts) |-> [raised |-> ts[p].raised, text |-> ts[p].result]]

\* ProcessSummaries that skips the tasks that raised
ProcessSummaries_DropsExceptions(results) ==
    LET kept == SelectSeq(results, LAMBDA r : ~r.raised)
    IN  [p \in 1..Len(kept) |-> kept[p].text]

\* ProcessSummaries that keeps str(result) of an exception as it is, unmarked
ProcessSummaries_Unmarked(results) == [p \in 1..Len(results) |-> results[p].text]

\* the loop of lines 201-209
ProcessSummaries(results) ==
    [p \in 1..Len(results) |->
        IF results[p].raised
        THEN <<"Error", " processing chunk ", ToString(p), ": ">> \o results[p].text
        ELSE results[p].text]

\* SuccessfulSummaries with the test on the wrong prefix ("error")
SuccessfulSummaries_WrongPrefix(s) == SelectSeq(s, LAMBDA x : ~(Len(x) > 0 /\ x[1] = "error"))

\* lines 217-219
SuccessfulSummaries(s) == SelectSeq(s, LAMBDA x : ~StartsWithError(x))

\* CombineSummaries over the successful summaries only
CombineSummaries_SkipsFailed(s) ==
    LET ok == SelectSeq(s, LAMBDA x : ~StartsWithError(x))
    IN  Join(<<"\n\n">>, [p \in 1..Len(ok) |-> <<"Section ", ToString(p), ":\n">> \o ok[p]])

\* lines 224-226
CombineSummaries(s) ==
    Join(<<"\n\n">>, [p \in 1..Len(s) |-> <<"Section ", ToString(p), ":\n">> \o s[p]])

\* the backoff wait after the n-th failure of the final call (line 300)
FinalBackoff(n) == FINAL_BACKOFF_BASE * Pow2(n - 1)

\* FinalAttempt without the break of line 291: after a good answer the loop goes
\* round and asks again
FinalAttempt_NoBreak(rc, resp) ==
    CASE resp.kind = "ok" ->
            [stage |-> "final_sleep", ret |-> <<>>, retry_count |-> rc, wait |-> 0]
      [] resp.kind = "emptyjson" ->
            [stage |-> "returned", ret |-> FinalFailedEmpty, retry_count |-> rc, wait |-> 0]
      [] resp.kind = "noshape" ->
            [stage |-> "raised", ret |-> ExcText(resp), retry_count |-> rc, wait |-> 0]
      [] resp.kind = "badjson" ->
            [stage |-> "returned", ret |-> FinalFailedUnexpected, retry_count |-> rc, wait |-> 0]
      [] OTHER ->
            IF rc + 1 <= MAX_RETRIES
            THEN [stage |-> "final_sleep", ret |-> <<>>, retry_count |-> rc + 1,
                  wait |-> FinalBackoff(rc + 1)]
            ELSE [stage |-> "returned", ret |-> FinalFailedAfterRetries,
                  retry_count |-> rc + 1, wait |-> 0]

\* FinalAttempt of a loop that allows one failure more than the budget
\* (retry_count <= MAX_RETRIES + 1 at line 299)
FinalAttempt_OneMore(rc, resp) ==
    CASE resp.kind = "ok" ->
            [stage |-> "returned", ret |-> resp.content, retry_count |-> rc, wait |-> 0]
      \* final_response = {} is falsy (line 312)
      [] resp.kind = "emptyjson" ->
            [stage |-> "returned", ret |-> FinalFailedEmpty, retry_count |-> rc, wait |-> 0]
      \* final_response['message']['content'] raises outside the try (lines 317, 319)
      [] resp.kind = "noshape" ->
            [stage |-> "raised", ret |-> ExcText(resp), retry_count |-> rc, wait |-> 0]
      \* response.json() raises ValueError, no httpx.HTTPError (line 308)
      [] resp.kind = "badjson" ->
            [stage |-> "returned", ret |-> FinalFailedUnexpected, retry_count |-> rc, wait |-> 0]
      \* httpx.HTTPError (line 293)
      [] OTHER ->
            IF rc + 1 <= MAX_RETRIES + 1
            THEN [stage |-> "final_sleep", ret |-> <<>>, retry_count |-> rc + 1,
                  wait |-> FinalBackoff(rc + 1)]
            ELSE [stage |-> "returned", ret |-> FinalFailedAfterRetries,
                  retry_count |-> rc + 1, wait |-> 0]

\* generate_final_summary from the backend's answer on (lines 284-319)
FinalAttempt(rc, resp) ==
    CASE resp.kind = "ok" ->
            [stage |-> "returned", ret |-> resp.content, retry_count |-> rc, wait |-> 0]
      \* final_response = {} is falsy (line 312)
      [] resp.kind = "emptyjson" ->
            [stage |-> "returned", ret |-> FinalFailedEmpty, retry_count |-> rc, wait |-> 0]
      \* final_response['message']['content'] raises outside the try (lines 317, 319)
      [] resp.kind = "noshape" ->
            [stage |-> "raised", ret |-> ExcText(resp), retry_count |-> rc, wait |-> 0]
      \* response.json() raises ValueError, no httpx.HTTPError (line 308)
      [] resp.kind = "badjson" ->
            [stage |-> "returned", ret |-> FinalFailedUnexpected, retry_count |-> rc, wait |-> 0]
      \* httpx.HTTPError (line 293)
      [] OTHER ->
            IF rc + 1 <= MAX_RETRIES
            THEN [stage |-> "final_sleep", ret |-> <<>>, retry_count |-> rc + 1,
                  wait |-> FinalBackoff(rc + 1)]
            ELSE [stage |-> "returned", ret |-> FinalFailedAfterRetries,
                  retry_count |-> rc + 1, wait |-> 0]

\* AllTerminal of a wait that ends with the first task to finish
\* (asyncio.wait(..., return_when=FIRST_COMPLETED))
AllTerminal_FirstCompleted ==
    tasks = <<>> \/ \E t \in DOMAIN tasks : tasks[t].pc = "done"

\* AllTerminal of a wait that needs a task to end before it resumes its caller
AllTerminal_NeedsATask ==
    tasks # <<>> /\ \A t \in DOMAIN tasks : tasks[t].pc = "done"

\* asyncio.gather (line 199) resumes its caller when every awaitable has ended
AllTerminal == \A t \in DOMAIN tasks : tasks[t].pc = "done"

\* lines 199-230, up to the first final-synthesis request; with return_exceptions=True
\* gather raises nothing, so the handler of lines 211-213 is never entered
Gather ==
    /\ stage = "chunks"
    /\ AllTerminal
    /\ LET s == ProcessSummaries(gather(tasks)) IN
          /\ summaries' = s
          /\ IF SuccessfulSummaries(s) = <<>>
             THEN /\ stage' = "returned"
                  /\ ret' = NoMeaningfulSummary
                  /\ UNCHANGED <<combined, final_requests>>
             ELSE /\ stage' = "final_await"
                  /\ combined' = CombineSummaries(s)
                  /\ final_requests' = 1
                  /\ UNCHANGED ret
    /\ UNCHANGED <<tasks, pending, observed, retry_count, final_wait, final_first, final_last,
                   final_response, appVars>>

FinalRespond ==
    /\ stage = "final_await"
    /\ \E resp \in FinalEvents :
          LET a == FinalAttempt(retry_count, resp) IN
          /\ stage' = a.stage
          /\ ret' = a.ret
          /\ retry_count' = a.retry_count
          /\ final_wait' = a.wait
          /\ final_first' = IF final_first = "none" THEN resp.kind ELSE final_first
          /\ final_last' = resp.kind
          /\ final_response' =
                IF resp.kind \in {"ok", "emptyjson", "noshape"} THEN resp ELSE final_response
    /\ UNCHANGED <<tasks, pending, observed, summaries, combined, final_requests, appVars>>

FinalWake ==
    /\ stage = "final_sleep"
    /\ stage' = "final_await"
    /\ final_requests' = final_requests + 1
    /\ UNCHANGED <<tasks, pending, observed, summaries, combined, retry_count, final_wait,
                   ret, final_first, final_last, final_response, appVars>>

Init ==
    /\ \E n \in 0..MaxChunks :
          /\ tasks = CreateTasks(n)
          /\ pending = [t \in 1..n |-> <<>>]
    /\ observed = 0
    /\ FinalIdle
    /\ AppIdle

Next ==
    \/ \E t \in TaskIds : Start(t)
    \/ \E t \in TaskIds : Respond(t)
    \/ \E t \in TaskIds : Wake(t)
    \/ Gather
    \/ FinalRespond
    \/ FinalWake

Spec == Init /\ [][Next]_vars

\* The run under the scheduling the event loop and the timeouts give: a task
\* that can run is run, every request gets its answer, an error or its timeout
\* (HTTP_TIMEOUT, line 30), and every asyncio.sleep ends.
Fairness ==
    /\ \A t \in TaskIds : WF_vars(Start(t)) /\ WF_vars(Respond(t)) /\ WF_vars(Wake(t))
    /\ WF_vars(Gather)
    /\ WF_vars(FinalRespond)
    /\ WF_vars(FinalWake)

SpecLive == Init /\ [][Next]_vars /\ Fairness

(***************************************************************************)
(* Two runs of the chunk phase side by side, two chunks each: tasks 1, 2   *)
(* are the first run's, tasks 3, 4 the second run's.  The runs get the     *)
(* same backend answers for chunk `observed` and independent answers for   *)
(* the other chunk.                                                        *)
(***************************************************************************)
InitPair ==
    /\ tasks = CreateTasks(2) \o CreateTasks(2)
    /\ pending = [t \in 1..4 |-> <<>>]
    /\ observed \in 1..2
    /\ FinalIdle
    /\ AppIdle

SpecPair == InitPair /\ [][NextChunks]_vars

(***************************************************************************)
(* The two retry loops side by side: one direct call of                    *)
(* summarize_chunk_with_retry with the budget MAX_RETRIES (task 1) and one *)
(* call of generate_final_summary, whose operations get the same answers   *)
(* in the same order.                                                      *)
(***************************************************************************)
\* the answers one operation may get, chunk request or final request alike
SideEvents ==
    { Resp("ok", c, 200) : c \in ChunkContents }
    \cup { Resp(k, <<>>, 0) : k \in TransportKinds }
    \cup { Resp("status", <<>>, 500) }
    \cup { Resp(k, <<>>, 200) : k \in {"badjson", "emptyjson", "noshape"} }

\* the operation of both loops completes with the same answer
\* (lines 127-164 for the chunk loop, lines 280-310 for the final loop)
BothRespond ==
    /\ tasks # <<>>
    /\ tasks[1].pc = "awaiting"
    /\ stage = "final_await"
    /\ \E resp \in SideEvents :
          LET a == FinalAttempt(retry_count, resp) IN
          /\ tasks' = [tasks EXCEPT ![1] = Attempt(@, resp)]
          /\ stage' = a.stage
          /\ ret' = a.ret
          /\ retry_count' = a.retry_count
          /\ final_wait' = a.wait
          /\ final_first' = IF final_first = "none" THEN resp.kind ELSE final_first
          /\ final_last' = resp.kind
          /\ final_response' =
                IF resp.kind \in {"ok", "emptyjson", "noshape"} THEN resp ELSE final_response
    /\ UNCHANGED <<pending, observed, summaries, combined, final_requests, appVars>>

\* both calls made; generate_final_summary has sent its first request (line 280)
InitSide ==
    /\ tasks = <<NewTask(1, 1, MAX_RETRIES)>>
    /\ pending = <<<<>>>>
    /\ observed = 0
    /\ stage = "final_await"
    /\ summaries = <<>>
    /\ combined \in ChunkContents
    /\ retry_count = 0
    /\ final_wait = 0
    /\ ret = <<>>
    /\ final_requests = 1
    /\ final_first = "none"
    /\ final_last = "none"
    /\ final_response = NoResp
    /\ AppIdle

NextSide ==
    \/ \E t \in TaskIds : Start(t)
    \/ \E t \in TaskIds : Wake(t)
    \/ FinalWake
    \/ BothRespond

SpecSide == InitSide /\ [][NextSide]_vars

(***************************************************************************)
(* The HTTP application of review.py and the requests its clients send.    *)
(* A URL is the sequence <<scheme and path prefix, paper id>>, so that     *)
(* url.startswith("https://arxiv.org/pdf/") is a test of its first element.*)
(***************************************************************************)
ArxivPrefix == "https://arxiv.org/pdf/"

Urls ==
    { <<ArxivPrefix, "2401.00001">>, <<ArxivPrefix, "2401.00002">>,
      <<"http://arxiv.org/pdf/", "2401.00001">> }

\* the routes the application registers (lines 37, 43)
Routes == { <<"GET", "/health">>, <<"POST", "/summarize_arxiv/">> }

\* the requests the clients send: the three modes of the frontend, the two
\* summarization tests and the health test of test_local_files.py
ClientCalls ==
    { <<"POST", "/summarize_arxiv/">>, <<"POST", "/summarize_local/">>,
      <<"POST", "/summarize/">>, <<"GET", "/health">> }

\* the forms of a downloaded PDF
PdfForms == {"text", "scan", "blank", "corrupt"}

\* what the remote server may answer to the download (lines 83-90):
\* a PDF in some form, another content type, an error status, no answer
DownloadEvents ==
    { [kind |-> "pdf", form |-> f] : f \in PdfForms }
    \cup { [kind |-> k, form |-> "absent"] : k \in {"html", "status", "neterr"} }

\* how `await summarize_text_parallel(text)` ends (line 59): with a string or with an exception
PipelineOutcomes == {"returned", "raised"}

DownloadFailed == Answer(200, {"error"}, <<"Failed to download PDF. Check the URL.">>)
NoTextExtracted == Answer(200, {"error"}, <<"No text extracted from PDF">>)
ProcessingFailed == Answer(200, {"error"}, <<"Failed to process PDF">>)
NotFound == Answer(404, {"detail"}, <<"Not Found">>)
HealthOk == Answer(200, {"status", "message"}, <<"FastAPI backend is running!">>)

\* lines 104-112: "\n".join of the pages' texts: the text of a paper, "" for
\* one page without text, "\n" for two pages without text; "" when fitz
\* cannot open the file
extract_text_from_pdf(file) ==
    CASE file.form = "text"  -> <<"text of ", file.paper>>
      [] file.form = "blank" -> <<"\n">>
      [] OTHER -> <<>>

\* url.startswith("https://arxiv.org/pdf/") with every URL accepted
ValidUrl_Any(url) == TRUE

\* url.startswith("https://arxiv.org/pdf/") (line 77)
ValidUrl(url) == url[1] = ArxivPrefix

\* a client sends one of its requests; the URL mode carries a URL
ClientPost(r) ==
    /\ r \in DOMAIN reqs
    /\ reqs[r].pc = "idle"
    /\ \E call \in ClientCalls, url \in Urls :
          /\ call[2] # "/summarize_arxiv/" => url = <<ArxivPrefix, "2401.00001">>
          /\ reqs' = [reqs EXCEPT ![r] =
                 [@ EXCEPT !.pc = "sent", !.method = call[1], !.endpoint = call[2],
                           !.posted = IF call[1] = "POST" THEN 1 ELSE 0,
                           !.url = IF call[2] = "/summarize_arxiv/" THEN url ELSE <<>>]]
    /\ UNCHANGED <<pdf_file, pipelineVars>>

(***************************************************************************)
(* The frontend: one run of the script after a button press (frontend.py   *)
(* lines 147-184).  A run sees True for the button that was pressed and    *)
(* False for the others, and the three input fields as they are.           *)
(***************************************************************************)
Buttons == {"url", "file", "universal"}

\* what the user may have typed into the three fields (<<>> when left empty)
UrlInputs == { <<>>, <<ArxivPrefix, "2401.00001">> }
FileInputs == { <<>>, <<"C:/Users/Usuario/Documents/paper.pdf">> }
UniversalInputs == { <<>>, <<"D:/Research/Papers/example_paper.pdf">> }

\* requests.post(endpoint, json=payload, timeout=3600) (lines 180-184)
Post(endpoint, payload) ==
    [posted |-> 1, endpoint |-> endpoint, payload |-> payload, warning |-> <<>>]

\* status_placeholder.warning(text), its leading sign left out, and st.stop()
\* (lines 167-174)
Warn(text) ==
    [posted |-> 0, endpoint |-> "", payload |-> {}, warning |-> text]

\* the script with the mode chosen by the first filled field, whatever the button
frontend_FirstFilledField(process_url, process_file, process_universal, pdf_url, local_file_path, universal_input) ==
    IF pdf_url # <<>>
    THEN Post("/summarize_arxiv/", { <<"url", pdf_url>> })
    ELSE IF local_file_path # <<>>
    THEN Post("/summarize_local/", { <<"file_path", local_file_path>> })
    ELSE IF universal_input # <<>>
    THEN Post("/summarize/", { <<"source", universal_input>>, <<"source_type", <<"auto">>>> })
    ELSE Warn(<<"Please enter a URL or file path.">>)

\* lines 147-184: the choice of endpoint and payload, or the warning
frontend(process_url, process_file, process_universal, pdf_url, local_file_path, universal_input) ==
    IF process_url /\ pdf_url # <<>>
    THEN Post("/summarize_arxiv/", { <<"url", pdf_url>> })
    ELSE IF process_file /\ local_file_path # <<>>
    THEN Post("/summarize_local/", { <<"file_path", local_file_path>> })
    ELSE IF process_universal /\ universal_input # <<>>
    THEN Post("/summarize/", { <<"source", universal_input>>, <<"source_type", <<"auto">>>> })
    ELSE IF process_url
    THEN Warn(<<"Please enter a valid ArXiv PDF URL.">>)
    ELSE IF process_file
    THEN Warn(<<"Please enter a valid file path.">>)
    ELSE Warn(<<"Please enter a URL or file path.">>)

\* the user presses one of the three buttons
Press(r) ==
    /\ r \in DOMAIN reqs
    /\ reqs[r].pc = "idle"
    /\ \E button \in Buttons, pdf_url \in UrlInputs,
          local_file_path \in FileInputs, universal_input \in UniversalInputs :
          LET out == frontend(button = "url", button = "file", button = "universal",
                              pdf_url, local_file_path, universal_input)
          IN  reqs' = [reqs EXCEPT ![r] =
                 [@ EXCEPT !.pc = IF out.posted = 1 THEN "sent" ELSE "stopped",
                           !.button = button,
                           !.field = CASE button = "url" -> pdf_url
                                       [] button = "file" -> local_file_path
                                       [] OTHER -> universal_input,
                           !.method = IF out.posted = 1 THEN "POST" ELSE "",
                           !.endpoint = out.endpoint,
                           !.payload = out.payload,
                           !.warning = out.warning,
                           !.posted = out.posted,
                           !.url = IF out.endpoint = "/summarize_arxiv/" THEN pdf_url ELSE <<>>]]
    /\ UNCHANGED <<pdf_file, pipelineVars>>

\* the application routes the request; summarize_arxiv runs up to the download
\* request of download_pdf (lines 45-84)
Route(r) ==
    /\ r \in DOMAIN reqs
    /\ reqs[r].pc = "sent"
    /\ LET q == reqs[r] IN
       reqs' = [reqs EXCEPT ![r] =
          IF <<q.method, q.endpoint>> \notin Routes
          THEN [q EXCEPT !.pc = "done", !.answer = NotFound]
          ELSE IF q.endpoint = "/health"
          THEN [q EXCEPT !.pc = "done", !.answer = HealthOk]
          ELSE IF ~ValidUrl(q.url)
          THEN [q EXCEPT !.pc = "done", !.answer = DownloadFailed]
          ELSE [q EXCEPT !.pc = "downloading"]]
    /\ UNCHANGED <<pdf_file, pipelineVars>>

\* the download's answer arrives (lines 84-95): a PDF is written to the file
\* "arxiv_paper.pdf", and download_pdf then waits for its client to close;
\* anything else makes download_pdf return None
Downloaded(r) ==
    /\ r \in DOMAIN reqs
    /\ reqs[r].pc = "downloading"
    /\ \E ev \in DownloadEvents :
          IF ev.kind = "pdf"
          THEN /\ pdf_file' = File(reqs[r].url[2], ev.form)
               /\ reqs' = [reqs EXCEPT ![r] =
                      [@ EXCEPT !.pc = "closing", !.got = File(reqs[r].url[2], ev.form)]]
          ELSE /\ reqs' = [reqs EXCEPT ![r] =
                      [@ EXCEPT !.pc = "done", !.answer = DownloadFailed]]
               /\ UNCHANGED pdf_file
    /\ UNCHANGED pipelineVars

\* download_pdf returns the file's name; the handler reads the file and, with
\* text in hand, enters summarize_text_parallel (lines 49-59)
Extract(r) ==
    /\ r \in DOMAIN reqs
    /\ reqs[r].pc = "closing"
    /\ LET text == extract_text_from_pdf(pdf_file) IN
       reqs' = [reqs EXCEPT ![r] =
          IF text = <<>>
          THEN [@ EXCEPT !.pc = "done", !.answer = NoTextExtracted]
          ELSE [@ EXCEPT !.pc = "summarizing", !.text = text, !.pipeline = TRUE]]
    /\ UNCHANGED <<pdf_file, pipelineVars>>

\* summarize_text_parallel ends and the handler answers (lines 59-71)
Summarized(r) ==
    /\ r \in DOMAIN reqs
    /\ reqs[r].pc = "summarizing"
    /\ \E end \in PipelineOutcomes :
          reqs' = [reqs EXCEPT ![r] =
             IF end = "returned"
             THEN [@ EXCEPT !.pc = "done",
                            !.answer = Answer(200, {"summary"}, <<"summary of ">> \o reqs[r].text)]
             ELSE [@ EXCEPT !.pc = "done", !.answer = ProcessingFailed]]
    /\ UNCHANGED <<pdf_file, pipelineVars>>

NextApp ==
    \/ \E r \in ReqIds : ClientPost(r)
    \/ \E r \in ReqIds : Press(r)
    \/ \E r \in ReqIds : Route(r)
    \/ \E r \in ReqIds : Downloaded(r)
    \/ \E r \in ReqIds : Extract(r)
    \/ \E r \in ReqIds : Summarized(r)

InitApp ==
    /\ tasks = <<>>
    /\ pending = <<>>
    /\ observed = 0
    /\ FinalIdle
    /\ AppIdle

SpecApp == InitApp /\ [][NextApp]_vars

(***************************************************************************)
(* Properties.                                                             *)
(***************************************************************************)
\* the task launched for chunk p
TaskOf(p) == CHOOSE t \in DOMAIN tasks : tasks[t].chunk_id = p

\* the outcome of a finished task, as one text: the value it returned, or the
\* description of the fault it raised behind the dispatcher's marker
OutcomeText(task) ==
    IF task.raised
    THEN <<"Error", " processing chunk ", ToString(task.chunk_id), ": ">> \o task.result
    ELSE task.result

\* the outcome of summarize_chunk_wrapper at the task's latest invocation
LastOutcome(task) == summarize_chunk_wrapper(task.last, task.chunk_id)

\* the loop itself ran to its end: no fault escaped it
Uncrashed(task) == task.last.kind # "crash"

\* C1: once the dispatcher has collected, there are exactly N outcomes and the
\* outcome at position p is the outcome of the task launched with chunk_id p,
\* whether that task succeeded, returned a failure or raised, in every
\* interleaving of the chunk tasks.
C1_OutcomesAligned ==
    stage # "chunks" =>
        /\ Len(summaries) = Len(tasks)
        /\ \A p \in 1..Len(tasks) :
              /\ \E t \in DOMAIN tasks : tasks[t].chunk_id = p
              /\ summaries[p] = OutcomeText(tasks[TaskOf(p)])

\* two chunks, the first raised, the second succeeded after two failures
C1_Witness ==
    /\ stage # "chunks"
    /\ Len(tasks) = 2
    /\ tasks[1].raised
    /\ tasks[2].retries = 2
    /\ ~StartsWithError(summaries[2])
    /\ StartsWithError(summaries[1])

\* C2: with max_retries >= k >= 0, when the wrapped operation fails on its
\* first k invocations and succeeds on invocation k+1, the loop returns that
\* success and the operation has been invoked exactly k+1 times: a success
\* ends the loop with its own value after fails+1 invocations, and the loop
\* does not end while every invocation has failed and a retry remains.
C2_ReturnsFirstSuccess ==
    \A t \in DOMAIN tasks :
        LET task == tasks[t] IN
        (task.max_retries >= 0 /\ Uncrashed(task)) =>
            /\ (task.calls > 0 /\ ~IsFailure(LastOutcome(task))) =>
                  /\ task.pc = "done"
                  /\ ~task.raised
                  /\ task.result = LastOutcome(task).text
                  /\ task.calls = task.fails + 1
                  /\ task.fails <= task.max_retries
            /\ (task.fails = task.calls /\ task.fails <= task.max_retries) =>
                  task.pc # "done"

\* max_retries = 3, three failures, then the success that is returned
C2_Witness ==
    \E t \in DOMAIN tasks :
        /\ tasks[t].max_retries = 3
        /\ tasks[t].pc = "done"
        /\ tasks[t].fails = 3
        /\ tasks[t].calls = 4
        /\ tasks[t].last.kind = "ok"
        /\ tasks[t].result = tasks[t].last.content

\* C3: with max_retries >= 0, when the wrapped operation fails on every
\* invocation, it is invoked exactly max_retries+1 times and the value
\* returned is the failure of the last invocation: the error it returned, or
\* the description of the exception it raised; never more invocations.
C3_ReturnsLastFailure ==
    \A t \in DOMAIN tasks :
        LET task == tasks[t] IN
        (task.max_retries >= 0 /\ Uncrashed(task)) =>
            /\ task.calls <= task.max_retries + 1
            /\ (task.pc = "done" /\ task.fails = task.calls) =>
                  /\ task.calls = task.max_retries + 1
                  /\ ~task.raised
                  /\ StartsWithError(task.result)
                  /\ task.result =
                        IF LastOutcome(task).raised
                        THEN <<"Error", " processing chunk ", ToString(task.chunk_id),
                               " after ", ToString(task.max_retries + 1), " attempts: ">>
                             \o LastOutcome(task).text
                        ELSE LastOutcome(task).text

\* max_retries = 2: three failed invocations, the last one an HTTP error status,
\* whose error text is the value returned
C3_Witness ==
    \E t \in DOMAIN tasks :
        /\ tasks[t].max_retries = 2
        /\ tasks[t].pc = "done"
        /\ tasks[t].calls = 3
        /\ tasks[t].fails = 3
        /\ tasks[t].last.kind = "status"
        /\ tasks[t].result = LastOutcome(tasks[t]).text

\* has the task of a chunk ended in a failure outcome
FailedOutcome(task) == task.pc = "done" /\ StartsWithError(OutcomeText(task))

\* has the task of a chunk ended in a success outcome
SuccessOutcome(task) == task.pc = "done" /\ ~StartsWithError(OutcomeText(task))

\* summarize_text_parallel has returned or raised
Finished == stage \in {"returned", "raised"}

\* C4: when every one of the N >= 1 chunk outcomes is a failure, no
\* final-synthesis request is ever sent, generate_final_summary is never
\* entered, and summarize_text_parallel returns the "No meaningful summary"
\* sentinel.
C4_AllFailedSentinel ==
    (Len(tasks) >= 1 /\ \A t \in DOMAIN tasks : FailedOutcome(tasks[t])) =>
        /\ final_requests = 0
        /\ combined = <<>>
        /\ stage \in {"chunks", "returned"}
        /\ stage = "returned" => ret = NoMeaningfulSummary

\* two chunks, one exhausted its retries on returned errors, one raised
C4_Witness ==
    /\ stage = "returned"
    /\ Len(tasks) = 2
    /\ tasks[1].retries = MAX_RETRIES + 1
    /\ tasks[2].raised
    /\ \A t \in DOMAIN tasks : FailedOutcome(tasks[t])
    /\ ret = NoMeaningfulSummary

\* C5: when at least one chunk outcome is a success, the final synthesis is
\* requested, and when the first final-synthesis request succeeds the backend
\* has received exactly one final request when summarize_text_parallel
\* returns, also when other chunks failed.
C5_OneFinalRequest ==
    (stage # "chunks" /\ \E t \in DOMAIN tasks : SuccessOutcome(tasks[t])) =>
        /\ final_requests >= 1
        /\ final_first = "ok" => (Finished /\ final_requests = 1)

\* two chunks, one failed and one succeeded, the first final answer is good
C5_Witness ==
    /\ Finished
    /\ Len(tasks) = 2
    /\ FailedOutcome(tasks[1])
    /\ SuccessOutcome(tasks[2])
    /\ final_first = "ok"
    /\ final_requests = 1

\* the index of the first token of s equal to sep (0 when there is none)
RECURSIVE IndexOf(_, _, _)
IndexOf(s, sep, from) ==
    IF from > Len(s) THEN 0
    ELSE IF s[from] = sep THEN from
    ELSE IndexOf(s, sep, from + 1)

\* str.split(sep)
RECURSIVE Split(_, _)
Split(s, sep) ==
    LET k == IndexOf(s, sep, 1) IN
    IF k = 0 THEN <<s>>
    ELSE <<SubSeq(s, 1, k - 1)>> \o Split(SubSeq(s, k + 1, Len(s)), sep)

\* the sections of a CombinedSummary
Sections(c) == Split(c, "\n\n")

\* C6: whenever the final synthesis is invoked, the CombinedSummary it gets
\* has exactly N sections, labelled "Section 1" .. "Section N" in this order,
\* and section p holds the outcome of chunk p: the summary of a chunk that
\* succeeded, the error text of a chunk that failed (neither omitted nor
\* renumbered), whatever the order in which the tasks completed.
C6_SectionsInOrder ==
    final_requests >= 1 =>
        LET secs == Sections(combined) IN
        /\ Len(secs) = Len(tasks)
        /\ \A p \in 1..Len(secs) :
              /\ Len(secs[p]) >= 3
              /\ SubSeq(secs[p], 1, 3) = <<"Section ", ToString(p), ":\n">>
              /\ SubSeq(secs[p], 4, Len(secs[p])) = OutcomeText(tasks[TaskOf(p)])

\* two chunks: the first failed and fills section 1, the second succeeded
C6_Witness ==
    /\ final_requests >= 1
    /\ Len(tasks) = 2
    /\ FailedOutcome(tasks[1])
    /\ SuccessOutcome(tasks[2])
    /\ Len(Sections(combined)) = 2
    /\ StartsWithError(SubSeq(Sections(combined)[1], 4, Len(Sections(combined)[1])))

\* C7 (as claimed): summarize_text_parallel never raises, whatever the backend
\* answers to the chunk requests and to the final request.
C7_NeverRaises == stage # "raised"

\* has generate_final_summary ended without a synthesized text
FinalCallFailed == Finished /\ final_requests >= 1 /\ final_last # "ok"

\* C8 (as claimed): a final call that fails on every attempt, by whatever kind
\* of failure, has been attempted exactly MAX_RETRIES+1 times when
\* generate_final_summary returns, and what it returns is the "after multiple
\* attempts" sentinel.
C8_FinalRetriedOnEveryFailure ==
    (stage = "returned" /\ FinalCallFailed) =>
        /\ final_requests = MAX_RETRIES + 1
        /\ ret = FinalFailedAfterRetries

\* C9 (as claimed): a chunk whose inference call got a well-formed 2xx answer
\* is not retried and is not a failure, whatever the generated text says: its
\* task is done with that text, and the aggregator counts it as successful.
C9_GoodAnswerIsSuccess ==
    \A t \in DOMAIN tasks :
        tasks[t].last.kind = "ok" =>
            /\ tasks[t].pc = "done"
            /\ tasks[t].result = tasks[t].last.content
            /\ stage # "chunks" =>
                  \E k \in 1..Len(SuccessfulSummaries(summaries)) :
                      SuccessfulSummaries(summaries)[k] = tasks[t].result

\* the two tasks that serve the observed chunk in the two runs
ObservedPairs ==
    { <<t, u>> \in (DOMAIN tasks) \X (DOMAIN tasks) :
        t < u /\ tasks[t].chunk_id = observed /\ tasks[u].chunk_id = observed }

\* C10: in two runs in which the backend gives the same answers to the
\* requests of chunk i, chunk i ends with the same outcome after the same
\* number of invocations, whatever the other chunk does in either run and
\* whatever the interleaving; neither run asks for an answer the other one
\* did not ask for.
C10_NoInterference ==
    \A pr \in ObservedPairs :
        LET a == tasks[pr[1]]
            b == tasks[pr[2]]
        IN  (a.pc = "done" /\ b.pc = "done") =>
                /\ a.result = b.result
                /\ a.raised = b.raised
                /\ a.calls = b.calls
                /\ pending[pr[1]] = <<>>
                /\ pending[pr[2]] = <<>>

\* chunk 1 succeeds at its second invocation in both runs, next to a sibling
\* that exhausted its retries in the first run and one that raised in the second
C10_Witness ==
    /\ observed = 1
    /\ Len(tasks) = 4
    /\ \A t \in DOMAIN tasks : tasks[t].pc = "done"
    /\ tasks[1].calls = 2 /\ tasks[3].calls = 2
    /\ tasks[1].last.kind = "ok" /\ tasks[3].last.kind = "ok"
    /\ tasks[2].retries = MAX_RETRIES + 1
    /\ tasks[4].raised

C12_AggregationAfterAllChunks ==
    /\ (stage = "chunks" /\ \E t \in DOMAIN tasks : tasks[t].pc # "ready") =>
          \A p \in 1..Len(tasks) : tasks[p].chunk_id = p
    /\ (stage # "chunks" \/ final_requests >= 1 \/ ret # <<>> \/ summaries # <<>>) =>
          \A t \in DOMAIN tasks :
              /\ tasks[t].pc = "done"
              /\ tasks[t].calls >= 1

\* the first final request is out; one chunk needed all its invocations
C12_Witness ==
    /\ stage = "final_await"
    /\ final_requests = 1
    /\ Len(tasks) = 2
    /\ tasks[1].calls = MAX_RETRIES + 1
    /\ tasks[2].calls = 1

\* C13: when the task of chunk i ends with a raised fault, the dispatcher
\* puts at position i the failure "Error processing chunk i: <description of
\* the fault>", keeps the outcomes of the other chunks, and goes on to the
\* aggregation: the fault does not leave summarize_text_parallel.
C13_RaisedFaultBecomesFailure ==
    (stage # "chunks" /\ \E t \in DOMAIN tasks : tasks[t].raised) =>
        /\ \A p \in 1..Len(tasks) :
              IF tasks[p].raised
              THEN /\ Len(summaries[p]) >= 4
                   /\ SubSeq(summaries[p], 1, 4) =
                         <<"Error", " processing chunk ", ToString(p), ": ">>
                   /\ SubSeq(summaries[p], 5, Len(summaries[p])) = ExcText(tasks[p].last)
              ELSE summaries[p] = tasks[p].result
        /\ stage = "raised" => (final_requests >= 1 /\ ret # ExcText(Resp("crash", <<>>, 0)))
        /\ stage = "returned" => ret # ExcText(Resp("crash", <<>>, 0))

\* chunk 1 raised, chunk 2 succeeded, and the run went on to the final synthesis
C13_Witness ==
    /\ Len(tasks) = 2
    /\ tasks[1].raised
    /\ tasks[1].last.kind = "crash"
    /\ ~tasks[2].raised
    /\ summaries = << <<"Error", " processing chunk ", "1", ": ", "fault">>,
                      <<"technical details">> >>
    /\ final_requests >= 1

\* C14: in summarize_chunk_with_retry a backoff sleep follows a failed
\* attempt exactly when a retry remains; the sleep after the n-th failed
\* attempt lasts RETRY_BACKOFF_BASE * 2^(n-1) seconds; no sleep follows a
\* successful attempt or the last permitted failed attempt.
C14_BackoffSchedule ==
    \A t \in DOMAIN tasks :
        LET k == tasks[t] IN
        /\ k.pc = "sleeping" =>
              /\ k.fails >= 1
              /\ k.fails = k.calls
              /\ IsFailure(LastOutcome(k))
              /\ k.fails <= k.max_retries
              /\ k.wait_time = RETRY_BACKOFF_BASE * 2^(k.fails - 1)
        /\ (k.pc \in {"sleeping", "done"} /\ k.calls >= 1 /\ Uncrashed(k)
               /\ IsFailure(LastOutcome(k))) =>
              (k.pc = "sleeping" <=> k.fails <= k.max_retries)
        /\ (k.pc = "done" /\ k.calls >= 1 /\ Uncrashed(k)
               /\ ~IsFailure(LastOutcome(k))) =>
              k.result = LastOutcome(k).text

\* the third failed attempt of a task with three retries: it sleeps four times the base
C14_Witness ==
    /\ tasks[1].max_retries = 3
    /\ tasks[1].pc = "sleeping"
    /\ tasks[1].fails = 3
    /\ tasks[1].wait_time = 4 * RETRY_BACKOFF_BASE

\* C15 (as claimed): when every chunk's first inference call gets a well-formed
\* 2xx answer and the first final-synthesis call does too, each chunk is
\* invoked exactly once, exactly one final call is made, and
\* summarize_text_parallel returns the content of that final answer unchanged.
\* First conjunct: a chunk whose first invocation got such an answer is done
\* and is not invoked again.  Second conjunct: a run whose chunks were each
\* invoked once with such an answer, and whose first final call got one too,
\* has sent one final request and returns that answer's content.
C15_AllSucceedFirstTime ==
    /\ \A t \in DOMAIN tasks :
          (tasks[t].calls = 1 /\ tasks[t].last.kind = "ok") => tasks[t].pc = "done"
    /\ ( /\ Finished
         /\ tasks # <<>>
         /\ \A t \in DOMAIN tasks : tasks[t].calls = 1 /\ tasks[t].last.kind = "ok"
         /\ final_first = "ok" ) =>
           /\ final_requests = 1
           /\ stage = "returned"
           /\ ret = final_response.content

\* the failure kinds of the single inference call of summarize_chunk_wrapper
CallFailureKinds ==
    TransportKinds \cup {"status", "badjson", "emptyjson", "noshape"}

\* C16: summarize_chunk_wrapper lets no transport or protocol exception
\* escape: when its inference call times out, cannot connect, gets an HTTP
\* error status, fails in transport otherwise, or gets a malformed or
\* unexpected body, the wrapper returns a value that starts with "Error" and
\* the retry loop sees a returned failure; each invocation sends at most one
\* request to the backend.
C16_WrapperContainsFailures ==
    \A t \in DOMAIN tasks :
        LET k == tasks[t] IN
        /\ k.requests <= k.calls
        /\ (k.pc # "awaiting" /\ k.last.kind \in CallFailureKinds) =>
              /\ ~LastOutcome(k).raised
              /\ StartsWithError(LastOutcome(k).text)
              /\ ~k.raised
              /\ k.fails = k.calls
              /\ k.pc = "done" => k.result = LastOutcome(k).text

\* a transport error that is neither a timeout nor a connection failure came
\* back as a returned failure, and the task waits to try again
C16_Witness ==
    /\ tasks # <<>>
    /\ tasks[1].last.kind = "transport"
    /\ tasks[1].pc = "sleeping"
    /\ tasks[1].requests = 1
    /\ LastOutcome(tasks[1]) =
          Returned(<<"Error", " processing chunk ", "1", ": ",
                     "'ReadError' object has no attribute 'response'">>)

\* C17 (as claimed): requests are independent also when they overlap: the
\* text a summarize_arxiv request extracts and summarizes is the text of the
\* PDF downloaded for its own URL, whatever other requests are in flight.
C17_OwnDocument ==
    \A r \in DOMAIN reqs :
        reqs[r].text # <<>> =>
            reqs[r].text \in { extract_text_from_pdf(File(reqs[r].url[2], f)) : f \in PdfForms }

\* the POST endpoints of the test script
TestedEndpoints == {"/summarize_local/", "/summarize/"}

\* C18 (as claimed): every summarization request a client sends is handled by
\* the application, none is answered 404 Not Found, and a successful answer
\* of POST /summarize_local/ or POST /summarize/ carries the fields source,
\* source_type and final_summary that the client reads.
C18_ClientRequestsServed ==
    \A r \in DOMAIN reqs :
        (reqs[r].pc = "done" /\ reqs[r].method = "POST") =>
            /\ reqs[r].answer.status # 404
            /\ (reqs[r].endpoint \in TestedEndpoints
                   /\ reqs[r].answer.status = 200 /\ "error" \notin reqs[r].answer.keys) =>
                  {"source", "source_type", "final_summary"} \subseteq reqs[r].answer.keys

\* C20 (as claimed): if every inference request eventually completes and
\* every backoff sleep eventually ends, every run of summarize_text_parallel
\* eventually returns a value to its caller, for every number of chunks and
\* every pattern of failures.
C20_EventuallyReturns == <>(stage = "returned")

\* C21 (as claimed): the retry loop of generate_final_summary and the retry
\* loop of summarize_chunk_with_retry follow one policy: given the same
\* answers in the same order and the same budget, after the n-th failure both
\* wait RETRY_BACKOFF_BASE * 2^(n-1) seconds, and after the same number of
\* invocations either both have ended or both go on to invoke again.
C21_SamePolicy ==
    /\ (tasks # <<>> /\ tasks[1].pc = "sleeping" /\ stage = "final_sleep"
           /\ tasks[1].retries = retry_count) =>
          /\ tasks[1].wait_time = final_wait
          /\ final_wait = RETRY_BACKOFF_BASE * 2^(retry_count - 1)
    /\ (tasks # <<>> /\ tasks[1].pc \in {"sleeping", "done"}
           /\ stage \in {"final_sleep", "returned", "raised"}
           /\ tasks[1].calls = final_requests) =>
          (tasks[1].pc = "done" <=> Finished)

\* inference requests sent for the chunks of tasks 1..n
RECURSIVE ChunkRequests(_)
ChunkRequests(n) == IF n = 0 THEN 0 ELSE tasks[n].requests + ChunkRequests(n - 1)

\* C22: in every reachable state of a run over N chunks, at most
\* MAX_RETRIES+1 inference requests have been sent for any one chunk, at most
\* MAX_RETRIES+1 final-synthesis requests have been sent, so at most
\* (N+1)*(MAX_RETRIES+1) requests in all; and no request is sent for a chunk
\* after that chunk produced a success: every request but a chunk's first
\* follows a failed invocation, and a task whose latest invocation returned a
\* success is done.
C22_RequestBudget ==
    /\ \A t \in DOMAIN tasks :
          /\ tasks[t].requests <= MAX_RETRIES + 1
          /\ tasks[t].requests <= tasks[t].fails + 1
          /\ (tasks[t].calls >= 1 /\ tasks[t].pc # "awaiting" /\ Uncrashed(tasks[t])
                 /\ ~IsFailure(LastOutcome(tasks[t]))) =>
                /\ tasks[t].pc = "done"
                /\ tasks[t].requests = tasks[t].fails + 1
    /\ final_requests <= MAX_RETRIES + 1
    /\ ChunkRequests(Len(tasks)) + final_requests <= (Len(tasks) + 1) * (MAX_RETRIES + 1)

\* the budget is used up: two chunks with three requests each, one of them
\* successful at its last attempt, and three final requests
C22_Witness ==
    /\ Len(tasks) = 2
    /\ Finished
    /\ ChunkRequests(2) + final_requests = 3 * (MAX_RETRIES + 1)
    /\ \E t \in DOMAIN tasks : ~IsFailure(LastOutcome(tasks[t]))

\* C23: summarize_arxiv enters the summarization pipeline only after a
\* successful download and with a non-empty extracted text; a request whose
\* URL does not start with "https://arxiv.org/pdf/", whose download failed or
\* was no PDF, or whose extracted text is empty is answered with an
\* {"error": ...} body, never entered the pipeline (so sent no inference
\* request), and the handler answered instead of raising.
C23_PipelineOnlyAfterText ==
    \A r \in DOMAIN reqs :
        LET q == reqs[r] IN
        (q.endpoint = "/summarize_arxiv/" /\ q.method = "POST") =>
            /\ q.pipeline =>
                  (q.url[1] = ArxivPrefix /\ q.got # NoFile /\ q.text # <<>>)
            /\ q.pc = "summarizing" => q.pipeline
            /\ (q.pc = "done" /\ (q.url[1] # ArxivPrefix \/ q.got = NoFile \/ q.text = <<>>)) =>
                  /\ ~q.pipeline
                  /\ q.answer.status = 200
                  /\ q.answer.keys = {"error"}
            /\ q.pc = "done" => q.answer.status = 200

\* one request was refused for its URL, another downloaded a PDF whose page
\* carries no text
C23_Witness ==
    \E r, u \in DOMAIN reqs :
        /\ reqs[r].pc = "done"
        /\ reqs[r].endpoint = "/summarize_arxiv/"
        /\ reqs[r].url[1] # ArxivPrefix
        /\ reqs[r].answer = DownloadFailed
        /\ reqs[u].pc = "done"
        /\ reqs[u].got.form = "scan"
        /\ reqs[u].answer = NoTextExtracted

\* C24: in the frontend one button press sends at most one POST request.
\* When the input field of the pressed button is empty, a warning is shown and
\* nothing is sent; otherwise exactly one request goes to the endpoint of the
\* pressed mode (url: /summarize_arxiv/, file: /summarize_local/, universal:
\* /summarize/) with that mode's payload, whatever the other fields contain.
C24_OnePressOnePost ==
    \A r \in DOMAIN reqs :
        LET q == reqs[r] IN
        q.button # "" =>
            /\ q.posted <= 1
            /\ q.field = <<>> =>
                  /\ q.posted = 0
                  /\ q.warning # <<>>
                  /\ q.pc = "stopped"
                  /\ q.answer = NoAnswer
            /\ q.field # <<>> =>
                  /\ q.posted = 1
                  /\ q.warning = <<>>
                  /\ q.pc # "stopped"
                  /\ q.method = "POST"
                  /\ q.button = "url" =>
                        /\ q.endpoint = "/summarize_arxiv/"
                        /\ q.payload = { <<"url", q.field>> }
                  /\ q.button = "file" =>
                        /\ q.endpoint = "/summarize_local/"
                        /\ q.payload = { <<"file_path", q.field>> }
                  /\ q.button = "universal" =>
                        /\ q.endpoint = "/summarize/"
                        /\ q.payload =
                              { <<"source", q.field>>, <<"source_type", <<"auto">>>> }

\* one press of the URL button with an empty URL field was stopped with a
\* warning, one press of the file button went out to /summarize_local/
C24_Witness ==
    \E r, u \in DOMAIN reqs :
        /\ reqs[r].button = "url"
        /\ reqs[r].field = <<>>
        /\ reqs[r].pc = "stopped"
        /\ reqs[r].warning = <<"Please enter a valid ArXiv PDF URL.">>
        /\ reqs[u].button = "file"
        /\ reqs[u].posted = 1
        /\ reqs[u].endpoint = "/summarize_local/"

\* C25: when the segmentation yields zero chunks, summarize_text_parallel
\* launches no chunk task and sends no request to the inference backend,
\* neither for a chunk nor for the final synthesis; the gather over no task
\* is ready at once, and the run returns the "No meaningful summary could be
\* generated..." sentinel.
C25_NoChunksNoRequests ==
    tasks = <<>> =>
        /\ ChunkRequests(Len(tasks)) = 0
        /\ final_requests = 0
        /\ final_first = "none"
        /\ stage \in {"chunks", "returned"}
        /\ stage = "chunks" => ENABLED Gather
        /\ stage = "returned" =>
              /\ ret = NoMeaningfulSummary
              /\ summaries = <<>>
              /\ combined = <<>>

\* the run over zero chunks has returned the sentinel
C25_Witness ==
    /\ tasks = <<>>
    /\ stage = "returned"
    /\ ret = NoMeaningfulSummary
    /\ final_requests = 0

====
